---------------------------- MODULE Spec2Model ----------------------------
(***************************************************************************)
(* Model of the dependency extractor (package dependency_extractor):       *)
(* DependencyExtractor.run (type index, dependency collection, manifest    *)
(* scan, directory and archive output), the Python and C# parsers and the  *)
(* Python module resolver.  Spec follows run to the end of the collection, *)
(* RunSpec to its return or its failure, LiveSpec adds fairness to the     *)
(* collection.                                                            *)
(*                                                                         *)
(* A file name is a record [stem, ext] ("utils.py" is stem "utils", ext    *)
(* "py"; a directory name has ext ""), a path is the sequence of its       *)
(* parts, a dotted module name is the sequence of its segments.  The file  *)
(* tree, the file contents and the settings are inputs: Init draws them    *)
(* from bounded families and no action changes them.                       *)
(***************************************************************************)
EXTENDS Integers, Sequences, FiniteSets, TLC

VARIABLES
    settings,                \* AppSettings as resolved by __init__
    content,                 \* the file tree: existing file path -> its text
    pc,                      \* position inside run / _collect_local_dependencies
    files_to_process,        \* deque of [path, depth]
    files_to_copy,
    external_python_deps,
    external_csharp_deps,
    csharp_type_to_path_map, \* set of [name, path] pairs, one per name
    processed_files,         \* local of _collect_local_dependencies
    current_file,            \* locals of the loop body
    current_depth,
    executor,                \* the thread pool of _build_csharp_type_index
    disk,                    \* the destination directory and the archive
    todo,                    \* files the running copy loop has still to take
    log                      \* history of the run (observation only)

vars == <<settings, content, pc, files_to_process, files_to_copy,
          external_python_deps, external_csharp_deps, csharp_type_to_path_map,
          processed_files, current_file, current_depth, executor, disk, todo, log>>

inputs == <<settings, content>>

packaging == <<disk, todo>>

----------------------------------------------------------------------------
(* Bounds of the model *)

\* longest list of entry files (settings.source_files)
MaxEntries == 2

\* most import statements in the entry file of the parser family
MaxImports == 2

----------------------------------------------------------------------------
(* Names, paths, the file tree *)

P(stem, ext) == [stem |-> stem, ext |-> ext]
Dir(name) == P(name, "")

None == <<>>

ProjDir == <<Dir("proj")>>
LibDir == <<Dir("lib")>>

F_main == ProjDir \o <<P("main", "py")>>
F_utils == ProjDir \o <<P("utils", "py")>>
F_helper == ProjDir \o <<Dir("tests"), P("helper", "py")>>
F_fooInit == ProjDir \o <<Dir("pkgs"), Dir("foo"), P("__init__", "py")>>
F_fooA == ProjDir \o <<Dir("pkgs"), Dir("foo"), P("a", "py")>>
F_fooB == ProjDir \o <<Dir("pkgs"), Dir("foo"), P("b", "py")>>
F_libUtils == LibDir \o <<P("utils", "py")>>
F_libUtilsInit == LibDir \o <<Dir("utils"), P("__init__", "py")>>
F_libFoo == LibDir \o <<Dir("pkgs"), P("foo", "py")>>
F_app == ProjDir \o <<P("App", "cs")>>
F_helperCs == ProjDir \o <<Dir("src"), P("Helper", "cs")>>
F_fakeCs == ProjDir \o <<Dir("tests"), P("Fake", "cs")>>
F_csproj == ProjDir \o <<P("app", "csproj")>>
F_testCsproj == ProjDir \o <<Dir("tests"), P("tests", "csproj")>>
F_outside == <<Dir("other"), P("tool", "py")>>

OutDir == <<Dir("out")>>
ZipPath == <<P("out", "zip")>>

PyFiles == {F_main, F_utils, F_helper, F_fooInit, F_fooA, F_fooB, F_libUtils,
            F_libUtilsInit, F_libFoo, F_outside}
CsFiles == {F_app, F_helperCs, F_fakeCs}
Files == PyFiles \cup CsFiles \cup {F_csproj, F_testCsproj}

\* str.lower() on the suffixes that occur
Lower(s) ==
    CASE s = "PY" -> "py"
      [] s = "CS" -> "cs"
      [] s = "Py" -> "py"
      [] s = "Cs" -> "cs"
      [] OTHER -> s

\* Path.suffix, lowered: the extension of the last part
suffix_lower(path) == Lower(path[Len(path)].ext)

IsPrefix(d, p) == Len(d) <= Len(p) /\ SubSeq(p, 1, Len(d)) = d

\* Path.is_file / Path.is_dir on the file tree
is_file(path) == path \in DOMAIN content
is_dir(path) == \E f \in DOMAIN content : Len(path) < Len(f) /\ IsPrefix(path, f)

\* Path.rglob('*.<ext>') under a directory (case-sensitive)
rglob(base, ext) ==
    {f \in DOMAIN content : IsPrefix(base, f) /\ Len(base) < Len(f) /\ f[Len(f)].ext = ext}

Range(s) == {s[i] : i \in DOMAIN s}

\* every order in which a set can be iterated
Orders(S) == {s \in [1..Cardinality(S) -> S] : Range(s) = S}

----------------------------------------------------------------------------
(* Ignore rules *)

\* fnmatch.fnmatchcase of a name against "<stem>.<ext>" where the stem may be "*"
fnmatchcase(part, pat) == pat.stem \in {"*", part.stem} /\ pat.ext = part.ext

\* PurePath.match with a relative pattern: the parts are matched from the right
path_match(path, pattern) ==
    /\ Len(pattern) <= Len(path)
    /\ \A i \in 1..Len(pattern) :
          fnmatchcase(path[Len(path) - Len(pattern) + i], pattern[i])

\* variant: the directory literals are not tested
_is_ignored_files_only(path) ==
    \E pattern \in settings.ignore_files : path_match(path, pattern)

_is_ignored(path) ==
    \/ \E i \in 1..Len(path) : path[i] \in settings.ignore_dirs
    \/ \E pattern \in settings.ignore_files : path_match(path, pattern)

----------------------------------------------------------------------------
(* Python: resolver and parser *)

stdlib_module_names ==
    {"os", "sys", "re", "collections", "math", "datetime", "json", "typing"}

\* name.replace('.', '/') with a suffix added to the last segment
ModulePath(name, ext) ==
    [i \in 1..Len(name) |-> IF i = Len(name) THEN P(name[i], ext) ELSE Dir(name[i])]

\* The paths of the tree are canonical (absolute, no symlink, no ".."), and on
\* such a path Path.resolve() returns the path itself.
RECURSIVE resolve_from(_, _, _)
resolve_from(name, project_dirs, i) ==
    IF i > Len(project_dirs) THEN None
    ELSE LET base_dir == project_dirs[i]
             potential_file == base_dir \o ModulePath(name, "py")
             potential_dir == base_dir \o ModulePath(name, "")
             marker == potential_dir \o <<P("__init__", "py")>>
         IN  IF is_file(potential_file) THEN potential_file
             ELSE IF is_dir(potential_dir) /\ is_file(marker) THEN marker
             ELSE resolve_from(name, project_dirs, i + 1)

\* variant: the source files of every project directory are tried before any
\* package directory
resolve_python_module_files_first(name, project_dirs) ==
    LET file_of(i) == project_dirs[i] \o ModulePath(name, "py")
        marker_of(i) == project_dirs[i] \o ModulePath(name, "") \o <<P("__init__", "py")>>
        file_hits == {i \in DOMAIN project_dirs : is_file(file_of(i))}
        marker_hits == {i \in DOMAIN project_dirs : is_file(marker_of(i))}
        first(S) == CHOOSE i \in S : \A j \in S : i <= j
    IN  IF file_hits # {} THEN file_of(first(file_hits))
        ELSE IF marker_hits # {} THEN marker_of(first(marker_hits))
        ELSE None

resolve_python_module(name, project_dirs) == resolve_from(name, project_dirs, 1)

\* the legacy script's resolver: one project root, whole-package inclusion
_resolve_python_module_path(name) ==
    LET potential_file == ProjDir \o ModulePath(name, "py")
        potential_dir == ProjDir \o ModulePath(name, "")
    IN  IF is_file(potential_file) THEN {potential_file}
        ELSE IF is_file(potential_dir \o <<P("__init__", "py")>>)
             THEN rglob(potential_dir, "py")
        ELSE {}

\* ast nodes of a Python text
Import(names) == [type |-> "Import", names |-> names, module |-> None, level |-> 0]
ImportFrom(module, level) ==
    [type |-> "ImportFrom", names |-> <<>>, module |-> module, level |-> level]

\* the names one node contributes (parsers.py 78-84): node.level is not read
modules_to_check(node) ==
    IF node.type = "Import" THEN Range(node.names)
    ELSE IF node.type = "ImportFrom" /\ node.module # None THEN {node.module}
    ELSE {}

AllModules(nodes) == UNION {modules_to_check(n) : n \in nodes}

\* variant: the whole dotted name is looked up in the standard-library set
IsExternal_whole_name(module_name) ==
    module_name \notin {<<n>> : n \in stdlib_module_names}

\* parsers.py 91: the root segment decides
IsExternal(module_name) == module_name[1] \notin stdlib_module_names

\* variant: resolved paths are not filtered by the ignore rules
parse_python_dependencies_unfiltered(nodes, project_dirs) ==
    LET mods == UNION {modules_to_check(n) : n \in nodes}
        resolved(m) == resolve_python_module(m, project_dirs)
    IN  [local |-> {resolved(m) : m \in {x \in mods : resolved(x) # None}},
         external |-> {m[1] : m \in {x \in mods : resolved(x) = None
                                                   /\ x[1] \notin stdlib_module_names}}]

\* parse_python_dependencies on a text that ast.parse accepts: [local, external]
parse_python_dependencies(nodes, project_dirs) ==
    LET mods == AllModules(nodes)
        resolved(m) == resolve_python_module(m, project_dirs)
    IN  [local |-> {resolved(m) : m \in {x \in mods : resolved(x) # None
                                                       /\ ~_is_ignored(resolved(x))}},
         external |-> {m[1] : m \in {x \in mods : resolved(x) = None /\ IsExternal(x)}}]

----------------------------------------------------------------------------
(* C#: index and parser *)

\* index_single_csharp_file: the (name, path) pairs of one file, [] if unreadable
index_single_csharp_file(file_path) ==
    IF content[file_path].mode \in {"unreadable", "undecodable"} THEN <<>>
    ELSE [i \in 1..Len(content[file_path].decls) |->
             [name |-> content[file_path].decls[i], path |-> file_path]]

TypeNames(map) == {e.name : e \in map}
TypeLookup(map, n) == (CHOOSE e \in map : e.name = n).path

\* the merge of one worker's result (extractor.py 89-91): first writer wins
RECURSIVE merge_results(_, _, _)
merge_results(map, file_results, i) ==
    IF i > Len(file_results) THEN map
    ELSE merge_results(
             IF file_results[i].name \in TypeNames(map) THEN map
             ELSE map \cup {file_results[i]},
             file_results, i + 1)

\* the merges of all workers in one completion order
RECURSIVE merge_all(_, _, _)
merge_all(map, order, i) ==
    IF i > Len(order) THEN map
    ELSE merge_all(merge_results(map, index_single_csharp_file(order[i]), 1), order, i + 1)

all_cs_files ==
    {f \in UNION {rglob(settings.project_dirs[i], "cs") : i \in 1..Len(settings.project_dirs)} :
        ~_is_ignored(f)}

parse_csharp_dependencies(refs, type_map) ==
    {TypeLookup(type_map, t) : t \in {x \in refs : x \in TypeNames(type_map)
                                                    /\ ~_is_ignored(TypeLookup(type_map, x))}}

is_csharp_project ==
    \E i \in 1..Len(settings.source_files) : suffix_lower(settings.source_files[i]) = "cs"


----------------------------------------------------------------------------
(* The inputs: file texts and settings *)

Py(nodes) == [mode |-> "text", nodes |-> nodes, decls |-> <<>>, refs |-> {}, pkgs |-> {}]
Cs(decls, refs) == [mode |-> "text", nodes |-> {}, decls |-> decls, refs |-> refs, pkgs |-> {}]
Csproj(pkgs) == [mode |-> "text", nodes |-> {}, decls |-> <<>>, refs |-> {}, pkgs |-> pkgs]
\* "unreadable": read_text raises; "unparsable": ast.parse raises something other
\* than SyntaxError; "badsyntax": ast.parse raises SyntaxError; "undecodable":
\* the bytes are not UTF-8, a strict read_text raises and read_text with
\* errors='ignore' returns the text without them
Broken(mode) == [mode |-> mode, nodes |-> {}, decls |-> <<>>, refs |-> {}, pkgs |-> {}]

\* a package reference of a manifest; form "attributes" is
\* <PackageReference Include="name" Version="version" ...>, form "element" has
\* the version in a child element
Ref(name, version, form) == [name |-> name, version |-> version, form |-> form]

I1(name) == Import(<<name>>)

\* import statements of the parser family
NodeUniverse ==
    { I1(<<"utils">>),
      I1(<<"numpy">>),
      Import(<< <<"os", "path">>, <<"requests">> >>),
      ImportFrom(<<"pkgs", "foo">>, 0),
      I1(<<"tests", "helper">>),
      ImportFrom(<<"utils">>, 1),
      ImportFrom(<<"pandas">>, 2),
      ImportFrom(None, 1),
      I1(<<"utils", "missing">>) }

MainOptsA ==
    { Py({Import(<< <<"utils">>, <<"numpy">> >>)}),
      Py({I1(<<"utils">>), I1(<<"tests", "helper">>)}),
      Py({ImportFrom(<<"pkgs", "foo">>, 0), I1(<<"utils">>)}),
      Broken("unreadable") }
UtilsOptsA ==
    { Py({}),
      Py({I1(<<"main">>), I1(<<"tests", "helper">>)}),
      Py({ImportFrom(<<"pkgs", "foo">>, 0), I1(<<"requests">>)}),
      Broken("unparsable") }
HelperOptsA ==
    { Py({I1(<<"pkgs", "foo", "a">>), I1(<<"os">>)}),
      Broken("badsyntax") }
FooInitOptsA ==
    { Py({}),
      Py({ImportFrom(<<"pkgs", "foo", "a">>, 0)}) }
MainOptsB ==
    { Py(S) : S \in {T \in SUBSET NodeUniverse : Cardinality(T) \in 1..MaxImports} }
AppOptsC ==
    { Cs(<<"App">>, {"Helper"}),
      Cs(<<"App">>, {"Helper", "Widget", "App"}) }

Tree(main, utils, helper, fooInit, app) ==
    [f \in Files |->
        CASE f = F_main -> main
          [] f = F_utils -> utils
          [] f = F_helper -> helper
          [] f = F_fooInit -> fooInit
          [] f = F_fooA -> Py({Import(<< <<"pkgs", "foo", "b">>, <<"yaml">> >>)})
          [] f = F_fooB -> Py({})
          [] f = F_libUtils -> Py({})
          [] f = F_libUtilsInit -> Py({})
          [] f = F_libFoo -> Py({})
          [] f = F_outside -> Py({})
          [] f = F_app -> app
          [] f = F_helperCs -> Cs(<<"Helper", "IHelper">>, {})
          [] f = F_fakeCs -> Cs(<<"Helper">>, {"App"})
          [] f = F_csproj -> Csproj({Ref("Newtonsoft.Json", "13.0.1", "attributes")})
          [] f = F_testCsproj -> Csproj({Ref("xunit", "2.4.2", "attributes")})]

DefaultApp == Cs(<<"App">>, {"Helper"})

TreesA ==
    { Tree(m, u, h, i, DefaultApp) :
        m \in MainOptsA, u \in UtilsOptsA, h \in HelperOptsA, i \in FooInitOptsA }
TreesB ==
    { Tree(m, Py({}), Py({}), Py({}), DefaultApp) : m \in MainOptsB }
HelperCsOptsC ==
    { Cs(<<"Helper", "IHelper">>, {}),
      [Cs(<<"Helper", "IHelper">>, {}) EXCEPT !.mode = "undecodable"] }
CsprojOptsC ==
    { Csproj({Ref("Newtonsoft.Json", "13.0.1", "attributes")}),
      Csproj({Ref("Serilog", "3.1.1", "attributes"),
              Ref("Newtonsoft.Json", "13.0.1", "attributes"),
              Ref("Moq", "4.20.0", "element")}) }
TreesC ==
    { [Tree(Py({I1(<<"utils">>)}), Py({I1(<<"numpy">>)}), Py({}), Py({}), a)
          EXCEPT ![F_helperCs] = h, ![F_csproj] = c] :
        a \in AppOptsC, h \in HelperCsOptsC, c \in CsprojOptsC }

IgnoreOpts ==
    { [dirs |-> {}, files |-> {}],
      [dirs |-> {Dir("tests")}, files |-> {}],
      [dirs |-> {}, files |-> {<<Dir("foo"), P("*", "py")>>, <<P("helper", "py")>>}] }

EntrySeqs(cands) == UNION {[1..n -> cands] : n \in 1..MaxEntries}

EntriesA == EntrySeqs({F_main, F_utils, F_helper})
EntriesB == {<<F_main>>}
EntriesC == {<<F_app>>, <<F_main, F_app>>, <<F_helperCs, F_app>>}

Settings(entries, ig, norec) ==
    [source_files |-> entries,
     project_dirs |-> <<ProjDir, LibDir>>,
     ignore_dirs |-> ig.dirs,
     ignore_files |-> ig.files,
     output_dir |-> OutDir,
     zip_file |-> None,
     no_recursion |-> norec,
     generate_report |-> TRUE]

SettingsOf(entrySet) ==
    { Settings(e, ig, nr) : e \in entrySet, ig \in IgnoreOpts, nr \in BOOLEAN }

\* the project directories given in the other order
SettingsLibFirst ==
    { [Settings(<<F_main>>, ig, FALSE) EXCEPT !.project_dirs = <<LibDir, ProjDir>>] :
        ig \in {x \in IgnoreOpts : x.files = {}} }

\* no thread pool yet: no future, no result taken
Idle == [results |-> <<>>, done |-> {}, merged |-> {}, cur |-> None, i |-> 0,
         checked |-> FALSE]

\* the destination directory (present before the run or not) and the archive,
\* nothing written yet.  dir.files maps a destination path to the source file
\* copied there, dir.kept tells that the directory still holds what it held
\* before the run; zip.entries holds one [arcname, source] member per write.
Disk0(present) ==
    [dir |-> [was |-> present, exists |-> present, kept |-> present, files |-> <<>>,
              manifests |-> <<>>, report |-> FALSE, complete |-> FALSE],
     zip |-> [exists |-> FALSE, entries |-> {}, manifests |-> <<>>, report |-> FALSE,
              complete |-> FALSE]]

(* the state after DependencyExtractor.__init__ *)
Constructed ==
    /\ pc = "run"
    /\ files_to_process =
           [i \in 1..Len(settings.source_files) |->
               [path |-> settings.source_files[i], depth |-> 0]]
    /\ files_to_copy = {}
    /\ external_python_deps = {}
    /\ external_csharp_deps = {}
    /\ csharp_type_to_path_map = {}
    /\ processed_files = {}
    /\ current_file = None
    /\ current_depth = 0
    /\ executor = Idle
    /\ todo = {}
    /\ log = [reads |-> {}, parsed |-> {}, failed |-> {},
              marks |-> [f \in Files |-> 0],
              skipped |-> [f \in Files |-> 0],
              dispatched |-> [f \in Files |-> 0],
              depth_at |-> [f \in Files |-> -1],
              enqueued |-> [f \in Files |->
                  Cardinality({i \in 1..Len(settings.source_files) :
                                   settings.source_files[i] = f})]]

Init ==
    /\ \/ settings \in SettingsOf(EntriesA) /\ content \in TreesA
       \/ settings \in SettingsOf(EntriesB) /\ content \in TreesB
       \/ settings \in SettingsOf(EntriesC) /\ content \in TreesC
       \/ settings \in SettingsLibFirst /\ content \in TreesB
    /\ disk = Disk0(FALSE)
    /\ Constructed

----------------------------------------------------------------------------
(* run: the type index *)

\* extractor.py 80-86: one future per non-ignored .cs file
SubmitIndex ==
    /\ pc = "run"
    /\ is_csharp_project
    /\ executor' = [Idle EXCEPT !.results = [f \in all_cs_files |-> <<>>]]
    /\ pc' = "index"
    /\ UNCHANGED <<inputs, packaging, files_to_process, files_to_copy, external_python_deps,
                   external_csharp_deps, csharp_type_to_path_map, processed_files,
                   current_file, current_depth, log>>

\* variant: the worker enters its pairs into the shared map itself
Worker_writing_map(f) ==
    /\ pc = "index"
    /\ f \in DOMAIN executor.results \ executor.done
    /\ executor' = [executor EXCEPT !.results[f] = index_single_csharp_file(f),
                                    !.done = @ \cup {f}]
    /\ csharp_type_to_path_map' =
           {e \in csharp_type_to_path_map :
               e.name \notin {x.name : x \in Range(index_single_csharp_file(f))}}
           \cup Range(index_single_csharp_file(f))
    /\ UNCHANGED <<inputs, packaging, pc, files_to_process, files_to_copy, external_python_deps,
                   external_csharp_deps, processed_files, current_file,
                   current_depth, log>>

\* a pool thread runs index_single_csharp_file on its file and completes its
\* future with the list it returns
Worker(f) ==
    /\ pc = "index"
    /\ f \in DOMAIN executor.results \ executor.done
    /\ executor' = [executor EXCEPT !.results[f] = index_single_csharp_file(f),
                                    !.done = @ \cup {f}]
    /\ UNCHANGED <<inputs, packaging, pc, files_to_process, files_to_copy, external_python_deps,
                   external_csharp_deps, csharp_type_to_path_map, processed_files,
                   current_file, current_depth, log>>

\* extractor.py 87-88: as_completed yields a completed future
TakeResult(f) ==
    /\ pc = "index"
    /\ executor.cur = None
    /\ f \in executor.done \ executor.merged
    /\ executor' = [executor EXCEPT !.cur = f, !.i = 1]
    /\ UNCHANGED <<inputs, packaging, pc, files_to_process, files_to_copy, external_python_deps,
                   external_csharp_deps, csharp_type_to_path_map, processed_files,
                   current_file, current_depth, log>>

\* variant: the name is entered without looking it up
name_absent_unchecked(type_name) == TRUE

\* extractor.py 90
name_absent(type_name) == type_name \notin TypeNames(csharp_type_to_path_map)

\* the pair the merge loop is at
CurrentPair == executor.results[executor.cur][executor.i]

\* extractor.py 89-90: the test of one pair
CheckName ==
    /\ pc = "index"
    /\ executor.cur # None
    /\ ~executor.checked
    /\ executor.i <= Len(executor.results[executor.cur])
    /\ executor' = IF name_absent(CurrentPair.name)
                   THEN [executor EXCEPT !.checked = TRUE]
                   ELSE [executor EXCEPT !.i = @ + 1]
    /\ UNCHANGED <<inputs, packaging, pc, files_to_process, files_to_copy, external_python_deps,
                   external_csharp_deps, csharp_type_to_path_map, processed_files,
                   current_file, current_depth, log>>

\* extractor.py 91: the dictionary assignment
InsertName ==
    /\ pc = "index"
    /\ executor.checked
    /\ csharp_type_to_path_map' =
           {e \in csharp_type_to_path_map : e.name # CurrentPair.name}
           \cup {CurrentPair}
    /\ executor' = [executor EXCEPT !.checked = FALSE, !.i = @ + 1]
    /\ UNCHANGED <<inputs, packaging, pc, files_to_process, files_to_copy, external_python_deps,
                   external_csharp_deps, processed_files, current_file,
                   current_depth, log>>

\* extractor.py 89: the pairs of the result are exhausted
ResultMerged ==
    /\ pc = "index"
    /\ executor.cur # None
    /\ executor.i > Len(executor.results[executor.cur])
    /\ executor' = [executor EXCEPT !.merged = @ \cup {executor.cur}, !.cur = None,
                                    !.i = 0]
    /\ UNCHANGED <<inputs, packaging, pc, files_to_process, files_to_copy, external_python_deps,
                   external_csharp_deps, csharp_type_to_path_map, processed_files,
                   current_file, current_depth, log>>

\* extractor.py 85-87: every future was yielded, the pool is shut down
IndexDone ==
    /\ pc = "index"
    /\ executor.cur = None
    /\ executor.merged = DOMAIN executor.results
    /\ pc' = "loop"
    /\ UNCHANGED <<inputs, packaging, executor, files_to_process, files_to_copy,
                   external_python_deps, external_csharp_deps,
                   csharp_type_to_path_map, processed_files, current_file,
                   current_depth, log>>

SkipIndex ==
    /\ pc = "run"
    /\ ~is_csharp_project
    /\ pc' = "loop"
    /\ UNCHANGED <<inputs, packaging, executor, files_to_process, files_to_copy, external_python_deps,
                   external_csharp_deps, csharp_type_to_path_map, processed_files,
                   current_file, current_depth, log>>

----------------------------------------------------------------------------
(* _collect_local_dependencies *)

QueuePaths(q) == {q[i].path : i \in DOMAIN q}

\* variant: the visited set is not consulted when an entry is popped
skip_check_ignored_only(path) == _is_ignored(path)

skip_check(path) == path \in processed_files \/ _is_ignored(path)

\* variant: a skipped entry is looked at but stays at the head of the frontier
PopSkip_peeking ==
    /\ pc = "loop"
    /\ files_to_process # <<>>
    /\ skip_check(Head(files_to_process).path)
    /\ current_file' = Head(files_to_process).path
    /\ current_depth' = Head(files_to_process).depth
    /\ UNCHANGED <<inputs, packaging, executor, pc, files_to_process, files_to_copy,
                   external_python_deps, external_csharp_deps, csharp_type_to_path_map,
                   processed_files, log>>

\* extractor.py 108-113: a popped entry that is skipped
PopSkip ==
    /\ pc = "loop"
    /\ files_to_process # <<>>
    /\ skip_check(Head(files_to_process).path)
    /\ files_to_process' = Tail(files_to_process)
    /\ current_file' = Head(files_to_process).path
    /\ current_depth' = Head(files_to_process).depth
    /\ log' = [log EXCEPT !.skipped[Head(files_to_process).path] = @ + 1]
    /\ UNCHANGED <<inputs, packaging, executor, pc, files_to_copy, external_python_deps,
                   external_csharp_deps, csharp_type_to_path_map, processed_files>>

\* extractor.py 108-117: a popped entry that is marked visited and to copy
PopMark ==
    /\ pc = "loop"
    /\ files_to_process # <<>>
    /\ ~skip_check(Head(files_to_process).path)
    /\ LET f == Head(files_to_process).path
           d == Head(files_to_process).depth
       IN  /\ files_to_process' = Tail(files_to_process)
           /\ current_file' = f
           /\ current_depth' = d
           /\ processed_files' = processed_files \cup {f}
           /\ files_to_copy' = files_to_copy \cup {f}
           /\ log' = [log EXCEPT !.marks[f] = @ + 1, !.depth_at[f] = d]
    /\ pc' = "marked"
    /\ UNCHANGED <<inputs, packaging, executor, external_python_deps, external_csharp_deps,
                   csharp_type_to_path_map>>

\* variant: the depth limit applies whatever the no_recursion flag says
stops_recursion_ignoring_flag == current_depth >= 1

\* variant: the depth limit starts one level too deep
stops_recursion_depth2 == settings.no_recursion /\ current_depth >= 2

stops_recursion == settings.no_recursion /\ current_depth >= 1

\* the read or the parse of the file raises (caught at extractor.py 139)
Raises(f) ==
    \/ content[f].mode = "unreadable"
    \/ suffix_lower(f) = "py" /\ content[f].mode = "unparsable"

\* what the parser of the file's language returns under a type index:
\* [local, external]
DispatchWith(f, type_map) ==
    IF suffix_lower(f) = "py"
    THEN IF content[f].mode = "badsyntax" THEN [local |-> {}, external |-> {}]
         ELSE parse_python_dependencies(content[f].nodes, settings.project_dirs)
    ELSE IF suffix_lower(f) = "cs"
    THEN [local |-> parse_csharp_dependencies(content[f].refs, type_map),
          external |-> {}]
    ELSE [local |-> {}, external |-> {}]

Dispatch(f) == DispatchWith(f, csharp_type_to_path_map)

\* variant: the file is still parsed for its external packages
StopRecursion_collecting_externals ==
    /\ pc = "marked"
    /\ stops_recursion
    /\ external_python_deps' =
           external_python_deps
               \cup (IF Raises(current_file) THEN {} ELSE Dispatch(current_file).external)
    /\ pc' = "loop"
    /\ UNCHANGED <<inputs, packaging, executor, files_to_process, files_to_copy,
                   external_csharp_deps, csharp_type_to_path_map, processed_files,
                   current_file, current_depth, log>>

\* extractor.py 119-122
StopRecursion ==
    /\ pc = "marked"
    /\ stops_recursion
    /\ pc' = "loop"
    /\ UNCHANGED <<inputs, packaging, executor, files_to_process, files_to_copy, external_python_deps,
                   external_csharp_deps, csharp_type_to_path_map, processed_files,
                   current_file, current_depth, log>>

\* variant: the frontier is not searched before appending
should_append_unqueued(dep_path, queue) == dep_path \notin processed_files

should_append(dep_path, queue) ==
    dep_path \notin processed_files /\ dep_path \notin QueuePaths(queue)

\* variant: a dependency is put at the front of the frontier (appendleft)
RECURSIVE append_deps_at_front(_, _, _, _)
append_deps_at_front(queue, order, depth, i) ==
    IF i > Len(order) THEN queue
    ELSE append_deps_at_front(
             IF should_append(order[i], queue)
             THEN <<[path |-> order[i], depth |-> depth + 1]>> \o queue
             ELSE queue,
             order, depth, i + 1)

\* variant: only the dependency iterated first is appended
append_deps_first_only(queue, order, depth, i) ==
    IF order # <<>> /\ should_append(order[1], queue)
    THEN Append(queue, [path |-> order[1], depth |-> depth + 1])
    ELSE queue

\* extractor.py 134-136, the dependencies taken in one iteration order
RECURSIVE append_deps(_, _, _, _)
append_deps(queue, order, depth, i) ==
    IF i > Len(order) THEN queue
    ELSE append_deps(
             IF should_append(order[i], queue)
             THEN Append(queue, [path |-> order[i], depth |-> depth + 1])
             ELSE queue,
             order, depth, i + 1)

Added(old, new) == {new[i].path : i \in (Len(old) + 1)..Len(new)}

\* extractor.py 124-138, 142: the file is read and parsed
ParseOk ==
    /\ pc = "marked"
    /\ ~stops_recursion
    /\ ~Raises(current_file)
    /\ LET res == Dispatch(current_file)
       IN  /\ external_python_deps' = external_python_deps \cup res.external
           /\ \E order \in Orders(res.local) :
                 files_to_process' = append_deps(files_to_process, order, current_depth, 1)
           /\ log' = [log EXCEPT
                        !.reads = @ \cup {current_file},
                        !.parsed = @ \cup {current_file},
                        !.dispatched[current_file] = @ + 1,
                        !.enqueued = [f \in Files |->
                            IF f \in Added(files_to_process, files_to_process')
                            THEN @[f] + 1 ELSE @[f]]]
    /\ pc' = "loop"
    /\ UNCHANGED <<inputs, packaging, executor, files_to_copy, external_csharp_deps, csharp_type_to_path_map,
                   processed_files, current_file, current_depth>>

\* variant: a failure retracts the inclusion of the file
ParseFail_retracting ==
    /\ pc = "marked"
    /\ ~stops_recursion
    /\ Raises(current_file)
    /\ files_to_copy' = files_to_copy \ {current_file}
    /\ log' = [log EXCEPT !.reads = @ \cup {current_file},
                          !.dispatched[current_file] = @ + 1,
                          !.failed = @ \cup {current_file}]
    /\ pc' = "loop"
    /\ UNCHANGED <<inputs, packaging, executor, files_to_process, external_python_deps,
                   external_csharp_deps, csharp_type_to_path_map, processed_files,
                   current_file, current_depth>>

\* extractor.py 124-128, 139-142: the read or the parse raises
ParseFail ==
    /\ pc = "marked"
    /\ ~stops_recursion
    /\ Raises(current_file)
    /\ log' = [log EXCEPT !.reads = @ \cup {current_file},
                          !.dispatched[current_file] = @ + 1,
                          !.failed = @ \cup {current_file}]
    /\ pc' = "loop"
    /\ UNCHANGED <<inputs, packaging, executor, files_to_process, files_to_copy, external_python_deps,
                   external_csharp_deps, csharp_type_to_path_map, processed_files,
                   current_file, current_depth>>

\* extractor.py 107: the frontier is empty
LoopExit ==
    /\ pc = "loop"
    /\ files_to_process = <<>>
    /\ pc' = "extcs"
    /\ UNCHANGED <<inputs, packaging, executor, files_to_process, files_to_copy, external_python_deps,
                   external_csharp_deps, csharp_type_to_path_map, processed_files,
                   current_file, current_depth, log>>

----------------------------------------------------------------------------
(* _collect_external_csharp_dependencies *)

\* variant: the ignore rules are not applied to the manifests
csproj_files_unfiltered ==
    UNION {rglob(settings.project_dirs[i], "csproj") : i \in 1..Len(settings.project_dirs)}

csproj_files ==
    {f \in UNION {rglob(settings.project_dirs[i], "csproj") :
                     i \in 1..Len(settings.project_dirs)} : ~_is_ignored(f)}

\* pattern.finditer: the (Include, Version) groups of the references written
\* with both attributes, Include first
package_matches(f) ==
    {<<r.name, r.version>> : r \in {x \in content[f].pkgs : x.form = "attributes"}}

\* f"{package}=={version}"
format_package(match) == <<match[1], "==", match[2]>>

CollectExternalCsharp ==
    /\ pc = "extcs"
    /\ external_csharp_deps' =
           IF is_csharp_project
           THEN external_csharp_deps
                    \cup UNION {{format_package(g) : g \in package_matches(f)} :
                                  f \in csproj_files}
           ELSE external_csharp_deps
    /\ pc' = "collected"
    /\ UNCHANGED <<inputs, packaging, executor, files_to_process, files_to_copy, external_python_deps,
                   csharp_type_to_path_map, processed_files, current_file,
                   current_depth, log>>

Next ==
    \/ SubmitIndex
    \/ \E f \in CsFiles : Worker(f)
    \/ \E f \in CsFiles : TakeResult(f)
    \/ CheckName
    \/ InsertName
    \/ ResultMerged
    \/ IndexDone
    \/ SkipIndex
    \/ PopSkip
    \/ PopMark
    \/ StopRecursion
    \/ ParseOk
    \/ ParseFail
    \/ LoopExit
    \/ CollectExternalCsharp

Spec == Init /\ [][Next]_vars

\* the projects on which termination is followed: files importing each
\* other, failing reads and parses, ignored entries, a C# file naming itself
InitLive ==
    /\ \/ /\ settings \in SettingsOf(EntrySeqs({F_main, F_helper}))
          /\ content \in {t \in TreesA : t[F_fooInit] = Py({})}
       \/ /\ settings \in SettingsOf({<<F_app>>})
          /\ content \in TreesC
    /\ disk = Disk0(FALSE)
    /\ Constructed

\* the interpreter keeps executing: a step that can be taken is taken
LiveSpec == InitLive /\ [][Next]_vars /\ WF_vars(Next)



----------------------------------------------------------------------------
(* run: the report and the outputs (file_system.py) *)

\* str(file_path.relative_to(proj_dir)) for the first project directory the
\* path lies under, else str(file_path): a relative or an absolute path string
_get_relative_path_str(file_path) ==
    LET containing == {i \in DOMAIN settings.project_dirs :
                          IsPrefix(settings.project_dirs[i], file_path)}
    IN  IF containing = {} THEN [absolute |-> TRUE, parts |-> file_path]
        ELSE LET k == CHOOSE i \in containing : \A j \in containing : i <= j
             IN  [absolute |-> FALSE,
                  parts |-> SubSeq(file_path, Len(settings.project_dirs[k]) + 1,
                                   Len(file_path))]

\* dir_path / relative_path_str: an absolute right operand replaces the left
join(dir_path, rel) == IF rel.absolute THEN rel.parts ELSE dir_path \o rel.parts

\* the member name ZipFile.write stores: leading separators are removed
arcname_of(rel) == rel.parts

\* the strings of the identifiers, in ascending code point order
StringOrder ==
    <<"13.0.1", "2.4.2", "3.1.1", "Newtonsoft.Json", "Serilog", "numpy", "pandas",
      "requests", "utils", "xunit", "yaml">>

Rank(str) == CHOOSE i \in DOMAIN StringOrder : StringOrder[i] = str

\* the position of an identifier in the order of str: a module name by itself,
\* name==version by the name and then the version (no name of the tree is a
\* prefix of another)
python_key(deps) == [x \in deps |-> Rank(x)]
csharp_key(deps) == [x \in deps |-> Rank(x[1]) * (Len(StringOrder) + 1) + Rank(x[3])]

\* variant: the list is in descending order
RECURSIVE sorted_descending(_, _)
sorted_descending(deps, key) ==
    IF deps = {} THEN <<>>
    ELSE LET m == CHOOSE x \in deps : \A y \in deps : key[y] <= key[x]
         IN  <<m>> \o sorted_descending(deps \ {m}, key)

\* sorted(list(deps))
RECURSIVE sorted(_, _)
sorted(deps, key) ==
    IF deps = {} THEN <<>>
    ELSE LET m == CHOOSE x \in deps : \A y \in deps : key[x] <= key[y]
         IN  <<m>> \o sorted(deps \ {m}, key)

\* file_system.py 20-23 and 44-47: the manifests written, name -> lines
manifests_of(py_deps, cs_deps) ==
    LET req == IF py_deps # {}
               THEN [n \in {"requirements.txt"} |-> sorted(py_deps, python_key(py_deps))]
               ELSE <<>>
        pkg == IF cs_deps # {}
               THEN [n \in {"csharp_packages.txt"} |-> sorted(cs_deps, csharp_key(cs_deps))]
               ELSE <<>>
    IN  req @@ pkg

\* variant: the run also goes on when only external packages were found
nothing_to_package_at_all ==
    files_to_copy = {} /\ external_python_deps = {} /\ external_csharp_deps = {}

\* extractor.py 56
nothing_to_package == files_to_copy = {}

\* extractor.py 56-58: nothing to copy, run returns
EmptyResult ==
    /\ pc = "collected"
    /\ nothing_to_package
    /\ pc' = "done"
    /\ UNCHANGED <<inputs, packaging, executor, files_to_process, files_to_copy,
                   external_python_deps, external_csharp_deps,
                   csharp_type_to_path_map, processed_files, current_file,
                   current_depth, log>>

\* where run goes after the directory output
AfterDir == IF settings.zip_file # None THEN "zip_open" ELSE "done"

\* extractor.py 60-66: the report is generated, the first output is chosen
StartPackaging ==
    /\ pc = "collected"
    /\ ~nothing_to_package
    /\ pc' = IF settings.output_dir # None THEN "dir_prepare" ELSE AfterDir
    /\ UNCHANGED <<inputs, packaging, executor, files_to_process, files_to_copy,
                   external_python_deps, external_csharp_deps,
                   csharp_type_to_path_map, processed_files, current_file,
                   current_depth, log>>

\* file_system.py 35-37: an existing destination is removed, a new one made
DirPrepare ==
    /\ pc = "dir_prepare"
    /\ disk' = [disk EXCEPT !.dir.exists = TRUE, !.dir.kept = FALSE]
    /\ todo' = files_to_copy
    /\ pc' = "dir_copy"
    /\ UNCHANGED <<inputs, executor, files_to_process, files_to_copy,
                   external_python_deps, external_csharp_deps,
                   csharp_type_to_path_map, processed_files, current_file,
                   current_depth, log>>

\* file_system.py 39-43: one file is copied; shutil.copy2 raises
\* SameFileError when the destination is the source itself
DirCopy(f) ==
    /\ pc = "dir_copy"
    /\ f \in todo
    /\ LET dest_file == join(settings.output_dir, _get_relative_path_str(f))
       IN  IF dest_file = f
           THEN pc' = "failed" /\ UNCHANGED packaging
           ELSE /\ disk' = [disk EXCEPT !.dir.files =
                               [d \in DOMAIN @ \cup {dest_file} |->
                                   IF d = dest_file THEN f ELSE @[d]]]
                /\ todo' = todo \ {f}
                /\ pc' = pc
    /\ UNCHANGED <<inputs, executor, files_to_process, files_to_copy,
                   external_python_deps, external_csharp_deps,
                   csharp_type_to_path_map, processed_files, current_file,
                   current_depth, log>>

\* file_system.py 44-49: the manifests and the report of the directory
DirFinish ==
    /\ pc = "dir_copy"
    /\ todo = {}
    /\ disk' = [disk EXCEPT
                  !.dir.manifests = manifests_of(external_python_deps, external_csharp_deps),
                  !.dir.report = settings.generate_report,
                  !.dir.complete = TRUE]
    /\ pc' = AfterDir
    /\ UNCHANGED <<inputs, todo, executor, files_to_process, files_to_copy,
                   external_python_deps, external_csharp_deps,
                   csharp_type_to_path_map, processed_files, current_file,
                   current_depth, log>>

\* file_system.py 16: the archive is created
ZipOpen ==
    /\ pc = "zip_open"
    /\ disk' = [disk EXCEPT !.zip.exists = TRUE]
    /\ todo' = files_to_copy
    /\ pc' = "zip_copy"
    /\ UNCHANGED <<inputs, executor, files_to_process, files_to_copy,
                   external_python_deps, external_csharp_deps,
                   csharp_type_to_path_map, processed_files, current_file,
                   current_depth, log>>

\* file_system.py 17-19: one member is added (a name already used is added
\* again, not replaced)
ZipWrite(f) ==
    /\ pc = "zip_copy"
    /\ f \in todo
    /\ disk' = [disk EXCEPT !.zip.entries =
                  @ \cup {[arcname |-> arcname_of(_get_relative_path_str(f)),
                           source |-> f]}]
    /\ todo' = todo \ {f}
    /\ UNCHANGED <<inputs, pc, executor, files_to_process, files_to_copy,
                   external_python_deps, external_csharp_deps,
                   csharp_type_to_path_map, processed_files, current_file,
                   current_depth, log>>

\* file_system.py 20-25 and the end of the with block
ZipFinish ==
    /\ pc = "zip_copy"
    /\ todo = {}
    /\ disk' = [disk EXCEPT
                  !.zip.manifests = manifests_of(external_python_deps, external_csharp_deps),
                  !.zip.report = settings.generate_report,
                  !.zip.complete = TRUE]
    /\ pc' = "done"
    /\ UNCHANGED <<inputs, todo, executor, files_to_process, files_to_copy,
                   external_python_deps, external_csharp_deps,
                   csharp_type_to_path_map, processed_files, current_file,
                   current_depth, log>>

\* the next file-system call of the output being written raises OSError: the
\* exception leaves run (extractor.py 66-70 has no handler), what was written
\* stays.  While the destination directory is prepared the call that raises
\* is rmtree (nothing removed) or mkdir (the old directory is gone).
PackagingFails ==
    /\ pc \in {"dir_prepare", "dir_copy", "zip_open", "zip_copy"}
    /\ pc' = "failed"
    /\ \/ disk' = disk
       \/ /\ pc = "dir_prepare"
          /\ disk.dir.exists
          /\ disk' = [disk EXCEPT !.dir.exists = FALSE, !.dir.kept = FALSE]
    /\ UNCHANGED <<inputs, todo, executor, files_to_process, files_to_copy,
                   external_python_deps, external_csharp_deps,
                   csharp_type_to_path_map, processed_files, current_file,
                   current_depth, log>>

\* run as a whole
NextRun ==
    \/ Next
    \/ EmptyResult
    \/ StartPackaging
    \/ DirPrepare
    \/ \E f \in Files : DirCopy(f)
    \/ DirFinish
    \/ ZipOpen
    \/ \E f \in Files : ZipWrite(f)
    \/ ZipFinish
    \/ PackagingFails

\* the project and the settings of the runs that are followed to their end
TreeRun ==
    [Tree(Py({Import(<< <<"utils">>, <<"numpy">> >>), I1(<<"yaml">>), I1(<<"pandas">>)}),
          Py({}), Py({I1(<<"requests">>)}), Py({}), DefaultApp)
        EXCEPT ![F_outside] = Broken("unreadable"),
               ![F_csproj] = Csproj({Ref("Serilog", "3.1.1", "attributes"),
                                     Ref("Newtonsoft.Json", "13.0.1", "attributes")})]

EntriesRun ==
    {<<F_main>>, <<F_utils, F_libUtils>>, <<F_outside>>, <<F_app>>, <<F_fakeCs>>,
     <<F_helper, F_main>>, <<F_main, F_app>>}

OutputOpts ==
    {[dir |-> OutDir, zip |-> None], [dir |-> None, zip |-> ZipPath],
     [dir |-> OutDir, zip |-> ZipPath]}

SettingsRun ==
    { [Settings(e, ig, nr) EXCEPT !.output_dir = o.dir, !.zip_file = o.zip,
                                  !.generate_report = r] :
        e \in EntriesRun, ig \in {x \in IgnoreOpts : x.files = {}}, nr \in BOOLEAN,
        o \in OutputOpts, r \in BOOLEAN }

InitRun ==
    /\ settings \in SettingsRun
    /\ content = TreeRun
    /\ \E present \in BOOLEAN : disk = Disk0(present)
    /\ Constructed

RunSpec == InitRun /\ [][NextRun]_vars

----------------------------------------------------------------------------
(* Vocabulary of the properties *)

Entries == Range(settings.source_files)

\* a path matches an ignore-directory literal or an ignore-file pattern
MatchesIgnoreRule(path) ==
    \/ \E i \in 1..Len(path) : \E d \in settings.ignore_dirs : path[i] = d
    \/ \E pat \in settings.ignore_files :
          /\ Len(pat) <= Len(path)
          /\ \A k \in 0..(Len(pat) - 1) :
                LET part == path[Len(path) - k]
                    pp == pat[Len(pat) - k]
                IN  part.ext = pp.ext /\ (pp.stem = "*" \/ pp.stem = part.stem)

NonIgnoredEntries == {e \in Entries : ~MatchesIgnoreRule(e)}

\* the traversal loop has ended
TraversalDone == pc \notin {"run", "index", "loop", "marked"}

\* the local-dependency edges leaving a file: what parsing it discovers
LocalEdges(f) == IF Raises(f) THEN {} ELSE Dispatch(f).local

RECURSIVE ReachFrom(_)
ReachFrom(S) ==
    LET next == S \cup UNION {LocalEdges(f) : f \in S}
    IN  IF next = S THEN S ELSE ReachFrom(next)

Reachable == ReachFrom(NonIgnoredEntries)

Count(p, q) == Cardinality({i \in DOMAIN q : q[i].path = p})

SeedCount(f) == Cardinality({i \in DOMAIN settings.source_files : settings.source_files[i] = f})

----------------------------------------------------------------------------
(* C1..C10 *)

\* C1: with recursion enabled and no read or parse failure, when the traversal
\* has ended files_to_copy is exactly the set of files reachable from the
\* non-ignored entry files along local-dependency edges.
C1_ReachableClosure ==
    (/\ TraversalDone
     /\ ~settings.no_recursion
     /\ \A f \in Reachable : content[f].mode = "text")
    => files_to_copy = Reachable

C1_Witness ==
    /\ pc = "collected"
    /\ ~settings.no_recursion
    /\ \A f \in Reachable : content[f].mode = "text"
    /\ Cardinality(files_to_copy) >= 4
    /\ \E f \in files_to_copy : log.depth_at[f] >= 3
    /\ \E f \in files_to_copy, g \in files_to_copy :
          f # g /\ f \in LocalEdges(g) /\ g \in LocalEdges(f)

\* C2: in every reachable state files_to_copy is a subset of processed_files and
\* processed_files holds no path that matches an ignore rule.
C2_CopySubsetVisited ==
    /\ files_to_copy \subseteq processed_files
    /\ \A p \in processed_files : ~MatchesIgnoreRule(p)

C2_Witness ==
    /\ pc = "loop"
    /\ MatchesIgnoreRule(current_file)
    /\ log.skipped[current_file] >= 1
    /\ files_to_copy # {}
    /\ settings.ignore_files # {}
    /\ \E p \in Files \ Entries : MatchesIgnoreRule(p)

\* C3: with no_recursion, when the traversal has ended files_to_copy is the
\* non-ignored entry files together with the non-ignored local files found by
\* parsing them, no file two or more hops away is in it, and a file popped at
\* depth >= 1 is included but never read or parsed.
C3_DirectOnly ==
    (settings.no_recursion /\ TraversalDone) =>
        /\ files_to_copy =
              NonIgnoredEntries \cup UNION {LocalEdges(e) : e \in NonIgnoredEntries}
        /\ \A f \in Files :
              log.depth_at[f] >= 1 =>
                  /\ f \in files_to_copy
                  /\ f \notin log.reads
                  /\ log.dispatched[f] = 0

C3_Witness ==
    /\ settings.no_recursion
    /\ pc = "collected"
    /\ \E f \in files_to_copy :
          /\ log.depth_at[f] = 1
          /\ LocalEdges(f) \ files_to_copy # {}
          /\ \A g \in LocalEdges(f) \ files_to_copy : ~MatchesIgnoreRule(g)

\* C4: a path that matches an ignore rule never enters files_to_copy, is never
\* read or parsed, and is never put on the frontier by the traversal (so it is
\* not re-queued after it was skipped), be it an entry file or a file
\* referenced by a parsed file.
C4_IgnoredNeverIncluded ==
    /\ [](\A p \in Files :
            MatchesIgnoreRule(p) =>
                /\ p \notin files_to_copy
                /\ p \notin log.reads
                /\ p \notin log.parsed
                /\ log.dispatched[p] = 0)
    /\ [][\A p \in Files :
            MatchesIgnoreRule(p) =>
                Count(p, files_to_process') <= Count(p, files_to_process)]_vars

\* an ignored entry file was skipped, and a parsed file names tests.helper
\* while the directory tests is ignored
C4_Witness ==
    /\ pc = "collected"
    /\ Dir("tests") \in settings.ignore_dirs
    /\ log.skipped[F_helper] >= 1
    /\ \E g \in log.parsed :
          \E n \in content[g].nodes : <<"tests", "helper">> \in modules_to_check(n)
    /\ F_helper \notin files_to_copy

\* C5: a file is in files_to_copy before it is read; a read or parse failure
\* leaves it there, adds nothing to the frontier or the external sets, keeps
\* the frontier, and the loop goes on: it ends only with an empty frontier.
C5_FailureIsolated ==
    /\ [](/\ (pc = "marked" => /\ current_file \in files_to_copy
                                /\ current_file \notin log.reads)
          /\ log.reads \subseteq files_to_copy
          /\ log.failed \subseteq files_to_copy
          /\ (TraversalDone => files_to_process = <<>>))
    /\ [][(pc = "marked" /\ ~stops_recursion /\ content[current_file].mode # "text"
           /\ content[current_file].mode # "badsyntax")
          => /\ files_to_process' = files_to_process
             /\ files_to_copy' = files_to_copy
             /\ external_python_deps' = external_python_deps
             /\ external_csharp_deps' = external_csharp_deps
             /\ pc' = "loop"]_vars

\* a file was marked after another file's failure, with entries still queued
C5_Witness ==
    /\ pc = "marked"
    /\ log.failed # {}
    /\ current_file \notin log.failed
    /\ files_to_process # <<>>
    /\ log.failed \subseteq files_to_copy

\* C6: every file is marked visited, added to files_to_copy and dispatched to
\* a parser at most once in a run; later occurrences are skipped.
C6_ProcessedOnce ==
    \A f \in Files : log.marks[f] <= 1 /\ log.dispatched[f] <= 1

\* an entry file named twice was skipped the second time, and two files that
\* import each other were both parsed
C6_Witness ==
    /\ \E f \in Files :
          /\ SeedCount(f) = 2
          /\ log.marks[f] = 1
          /\ log.skipped[f] = 1
          /\ ~MatchesIgnoreRule(f)
    /\ \E f \in log.parsed, g \in log.parsed :
          f # g /\ f \in LocalEdges(g) /\ g \in LocalEdges(f)

\* C7 as stated: a path is put on the frontier at most once, the seeding with
\* the entry files included, and the frontier never holds a path twice.
C7_EnqueuedOnce ==
    \A f \in Files : log.enqueued[f] <= 1 /\ Count(f, files_to_process) <= 1

\* C7 amended: the traversal appends a path at most once and never a path
\* that was seeded, is on the frontier or was popped; a path is on the frontier
\* twice only if the entry-file list names it twice (seeding keeps duplicates).
C7_AppendedOnce ==
    \A f \in Files :
        /\ log.enqueued[f] <= (IF SeedCount(f) > 0 THEN SeedCount(f) ELSE 1)
        /\ Count(f, files_to_process) <= (IF SeedCount(f) > 0 THEN SeedCount(f) ELSE 1)
        /\ Count(f, files_to_process) + log.marks[f] + log.skipped[f] = log.enqueued[f]

\* a file found by two parsed files was put on the frontier once
C7_Witness ==
    \E f \in Files :
        /\ SeedCount(f) = 0
        /\ log.enqueued[f] = 1
        /\ log.marks[f] = 1
        /\ \E g \in log.parsed, h \in log.parsed :
              g # h /\ f \in LocalEdges(g) /\ f \in LocalEdges(h)

PyParsed == {g \in log.parsed : suffix_lower(g) = "py" /\ content[g].mode = "text"}

\* the project directory under which a name is a package with a marker file
PackageDirs(m) ==
    {settings.project_dirs[i] \o ModulePath(m, "") : i \in DOMAIN settings.project_dirs}

\* C8 as stated: when a name imported by a parsed file resolves to a package
\* directory with a marker file, every Python file beneath that directory
\* (that no ignore rule matches) is in files_to_copy at the end.
C8_WholePackage ==
    TraversalDone =>
        \A g \in PyParsed : \A m \in AllModules(content[g].nodes) :
            \A d \in PackageDirs(m) :
                resolve_python_module(m, settings.project_dirs) = d \o <<P("__init__", "py")>>
                => \A f \in _resolve_python_module_path(m) :
                       ~MatchesIgnoreRule(f) => f \in files_to_copy

\* the names of the absolute imports of a parsed file
AbsoluteNames(g) ==
    UNION {IF n.type = "Import" THEN Range(n.names)
           ELSE IF n.level = 0 /\ n.module # None THEN {n.module}
           ELSE {} : n \in content[g].nodes}

\* a name matches a source file or a marked package under some project directory
ResolvesLocally(m) ==
    \E i \in DOMAIN settings.project_dirs :
        \/ (settings.project_dirs[i] \o ModulePath(m, "py")) \in DOMAIN content
        \/ (settings.project_dirs[i] \o ModulePath(m, "") \o <<P("__init__", "py")>>)
               \in DOMAIN content

ResolvedFile(m) == resolve_python_module(m, settings.project_dirs)

\* C9 as stated: a resolved absolute name is local (its file is a local
\* dependency, and it is not external), an unresolved one with a root outside
\* the standard library adds its root to the external set, and no
\* standard-library root is in the external set.
C9_OneClassification ==
    /\ \A g \in PyParsed : \A m \in AbsoluteNames(g) :
          /\ ResolvesLocally(m) =>
                /\ ResolvedFile(m) \in files_to_copy \cup QueuePaths(files_to_process)
                /\ m[1] \notin external_python_deps
          /\ (~ResolvesLocally(m) /\ m[1] \notin stdlib_module_names) =>
                m[1] \in external_python_deps
    /\ external_python_deps \cap stdlib_module_names = {}

\* C9 amended: a resolved absolute name makes its file a local dependency
\* unless an ignore rule matches the file, and adds nothing to the external
\* set; an unresolved name with a root outside the standard library adds its
\* root; nothing else is added, so no standard-library root is external.  The
\* root of a local name is external only when another checked name with this
\* root is unresolved.
C9_Classification ==
    /\ \A g \in PyParsed : \A m \in AbsoluteNames(g) :
          /\ (ResolvesLocally(m) /\ ~MatchesIgnoreRule(ResolvedFile(m))) =>
                ResolvedFile(m) \in files_to_copy \cup QueuePaths(files_to_process)
          /\ (~ResolvesLocally(m) /\ m[1] \notin stdlib_module_names) =>
                m[1] \in external_python_deps
    /\ external_python_deps \cap stdlib_module_names = {}
    /\ external_python_deps =
          {m[1] : m \in {x \in UNION {AllModules(content[g].nodes) : g \in PyParsed} :
                            ~ResolvesLocally(x) /\ x[1] \notin stdlib_module_names}}

\* main.py imports utils and numpy: files_to_copy is {main.py, utils.py} and
\* the external set is {numpy}
C9_Witness ==
    /\ pc = "collected"
    /\ settings.source_files = <<F_main>>
    /\ content[F_main].nodes = {I1(<<"utils">>), I1(<<"numpy">>)}
    /\ files_to_copy = {F_main, F_utils}
    /\ external_python_deps = {"numpy"}

\* C10 as stated: the from-imports with a nonzero level of a parsed file add
\* nothing to the local dependencies and nothing to the external set.
C10_RelativeIgnored ==
    \A g \in PyParsed :
        LET nodes == content[g].nodes
            absolute == {n \in nodes : ~(n.type = "ImportFrom" /\ n.level > 0)}
            all == parse_python_dependencies(nodes, settings.project_dirs)
            abs == parse_python_dependencies(absolute, settings.project_dirs)
        IN  /\ all.local \subseteq abs.local
            /\ all.external \subseteq abs.external
            /\ (absolute = {} /\ settings.source_files = <<g>> /\ TraversalDone) =>
                   (files_to_copy = {g} /\ external_python_deps = {})

----------------------------------------------------------------------------
(* C11..C20 *)

\* the project directories, by position, under which a name matches
SourceFileOf(m, i) == settings.project_dirs[i] \o ModulePath(m, "py")
MarkerOf(m, i) == settings.project_dirs[i] \o ModulePath(m, "") \o <<P("__init__", "py")>>
MatchingDirs(m) ==
    {i \in DOMAIN settings.project_dirs :
        SourceFileOf(m, i) \in DOMAIN content \/ MarkerOf(m, i) \in DOMAIN content}

\* C11: for every name checked in a parsed Python file, resolve_python_module
\* returns none exactly when no project directory yields a match; otherwise it
\* returns the match of the first project directory in the configured order
\* that yields one: the source file of that directory if it exists, else the
\* marker file of the package directory there.  Nothing of a later directory
\* is returned.
C11_FirstDirWins ==
    \A g \in PyParsed : \A m \in AllModules(content[g].nodes) :
        LET hits == MatchingDirs(m)
            r == resolve_python_module(m, settings.project_dirs)
        IN  /\ (r = None) <=> (hits = {})
            /\ hits # {} =>
                  LET k == CHOOSE i \in hits : \A j \in hits : i <= j
                  IN  r = IF SourceFileOf(m, k) \in DOMAIN content
                          THEN SourceFileOf(m, k) ELSE MarkerOf(m, k)

\* lib is searched first: pkgs.foo is the source file lib/pkgs/foo.py although
\* proj holds the package pkgs/foo, and utils is lib/utils.py although lib
\* also holds the package utils and proj holds utils.py
C11_Witness ==
    /\ pc = "collected"
    /\ settings.project_dirs = <<LibDir, ProjDir>>
    /\ F_main \in PyParsed
    /\ AllModules(content[F_main].nodes) = {<<"pkgs", "foo">>, <<"utils">>}
    /\ Cardinality(MatchingDirs(<<"pkgs", "foo">>)) = 2
    /\ Cardinality(MatchingDirs(<<"utils">>)) = 2
    /\ files_to_copy = {F_main, F_libFoo, F_libUtils}

\* the index is built: run has left _build_csharp_type_index
IndexBuilt == is_csharp_project /\ pc \notin {"run", "index"}

\* C12: in every state the type index maps a name to one file only, and that
\* file is an indexed file declaring the name; no step of the run overwrites
\* or removes a mapping that exists.  A name declared in several files is
\* merged like any other (there is no failing step in the merge).
C12_FirstWriterWins ==
    /\ [](/\ \A e1 \in csharp_type_to_path_map, e2 \in csharp_type_to_path_map :
                e1.name = e2.name => e1 = e2
          /\ \A e \in csharp_type_to_path_map :
                e.path \in all_cs_files /\ e.name \in Range(content[e.path].decls))
    /\ [][\A e \in csharp_type_to_path_map : e \in csharp_type_to_path_map']_vars

\* Helper is declared in two indexed files and both results were merged
C12_Witness ==
    /\ pc = "loop"
    /\ IndexBuilt
    /\ \E f \in executor.merged, g \in executor.merged :
          /\ f # g
          /\ "Helper" \in Range(content[f].decls) \cap Range(content[g].decls)
          /\ content[f].mode = "text" /\ content[g].mode = "text"
    /\ "Helper" \in TypeNames(csharp_type_to_path_map)

\* the indexed files a strict UTF-8 read succeeds on
ReadableCs == {f \in all_cs_files : content[f].mode = "text"}

\* C13: the shared map changes only by the coordinating thread's insertion of
\* the pair it has just tested, and the name is still absent at that moment;
\* a worker completing changes its own future only (not the map, not another
\* future, not the coordinator's position); and once the index is built its
\* key set is the union of the type names declared in the indexed files that
\* could be read, whatever the order of completion was: the index is what
\* merging the results one after the other in some order of the files gives.
C13_WorkersShareNothing ==
    /\ [][csharp_type_to_path_map' # csharp_type_to_path_map =>
             /\ pc = "index"
             /\ executor.checked
             /\ CurrentPair.name \notin TypeNames(csharp_type_to_path_map)
             /\ csharp_type_to_path_map' = csharp_type_to_path_map \cup {CurrentPair}
             /\ executor'.done = executor.done
             /\ executor'.results = executor.results]_vars
    /\ [][executor'.done # executor.done =>
             /\ csharp_type_to_path_map' = csharp_type_to_path_map
             /\ \E f \in DOMAIN executor.results \ executor.done :
                   /\ executor'.done = executor.done \cup {f}
                   /\ \A g \in DOMAIN executor.results \ {f} :
                         executor'.results[g] = executor.results[g]
             /\ executor'.cur = executor.cur
             /\ executor'.i = executor.i
             /\ executor'.checked = executor.checked
             /\ executor'.merged = executor.merged]_vars
    /\ [](IndexBuilt =>
             /\ TypeNames(csharp_type_to_path_map)
                    = UNION {Range(content[f].decls) : f \in ReadableCs}
             /\ \E order \in Orders(all_cs_files) :
                   csharp_type_to_path_map = merge_all({}, order, 1))

\* the coordinating thread has tested a name and not yet inserted it while
\* the worker of another file declaring the same name is still running
C13_Witness ==
    /\ pc = "index"
    /\ executor.checked
    /\ \E f \in DOMAIN executor.results \ executor.done :
          CurrentPair.name \in Range(content[f].decls)

\* no type name is declared in two indexed files
SingleDeclaration ==
    \A f \in ReadableCs, g \in ReadableCs :
        f # g => Range(content[f].decls) \cap Range(content[g].decls) = {}

\* the results of a run as functions of the project and the settings alone
IndexOfInputs ==
    IF is_csharp_project
    THEN UNION {{[name |-> n, path |-> f] : n \in Range(content[f].decls)} : f \in ReadableCs}
    ELSE {}

EdgesOfInputs(f) == IF Raises(f) THEN {} ELSE DispatchWith(f, IndexOfInputs).local

RECURSIVE ClosureOfInputs(_)
ClosureOfInputs(S) ==
    LET next == S \cup UNION {EdgesOfInputs(f) : f \in S}
    IN  IF next = S THEN S ELSE ClosureOfInputs(next)

CopySetOfInputs ==
    IF settings.no_recursion
    THEN NonIgnoredEntries \cup UNION {EdgesOfInputs(e) : e \in NonIgnoredEntries}
    ELSE ClosureOfInputs(NonIgnoredEntries)

ExternalPythonOfInputs ==
    LET parsed == IF settings.no_recursion THEN NonIgnoredEntries ELSE CopySetOfInputs
    IN  UNION {DispatchWith(f, IndexOfInputs).external : f \in {x \in parsed : ~Raises(x)}}

ExternalCsharpOfInputs ==
    IF is_csharp_project
    THEN {<<r.name, "==", r.version>> :
             r \in {x \in UNION {content[f].pkgs :
                                    f \in {c \in DOMAIN content :
                                              /\ c[Len(c)].ext = "csproj"
                                              /\ ~MatchesIgnoreRule(c)
                                              /\ \E d \in Range(settings.project_dirs) :
                                                    IsPrefix(d, c)}} :
                        x.form = "attributes"}}
    ELSE {}

\* C14: when no type name is declared in two indexed files, the results of a
\* completed collection are determined by the project and the settings: in
\* every run, whatever the order in which the index workers completed and the
\* order in which the dependencies of a file were appended, files_to_copy and
\* both external sets have the one value computed from the inputs, so two
\* runs on the same inputs agree.
C14_Deterministic ==
    (pc = "collected" /\ SingleDeclaration) =>
        /\ files_to_copy = CopySetOfInputs
        /\ external_python_deps = ExternalPythonOfInputs
        /\ external_csharp_deps = ExternalCsharpOfInputs

\* a C# run without a doubly declared name in which several workers completed
\* and a parsed file had several dependencies to append
C14_Witness ==
    /\ pc = "collected"
    /\ is_csharp_project
    /\ SingleDeclaration
    /\ Cardinality(executor.merged) >= 2
    /\ \E g \in log.parsed : Cardinality(LocalEdges(g)) >= 2
    /\ Cardinality(files_to_copy) >= 3
    /\ external_python_deps # {}
    /\ external_csharp_deps # {}

\* the manifests under the project directories that no ignore rule matches
Manifests ==
    {c \in DOMAIN content :
        /\ c[Len(c)].ext = "csproj"
        /\ ~MatchesIgnoreRule(c)
        /\ \E d \in Range(settings.project_dirs) : IsPrefix(d, c)}

\* C15 as stated: after the scan the external C# set is the set of
\* name==version strings of every package reference declared in every
\* non-ignored manifest under a project directory.
C15_EveryManifest ==
    pc = "collected" =>
        external_csharp_deps =
            {<<r.name, "==", r.version>> : r \in UNION {content[f].pkgs : f \in Manifests}}

\* C15 amended: the scan runs only when an entry file is a .cs file (else the
\* set stays empty) and finds the references written with an Include
\* attribute followed by a Version attribute; then the set is the name==version
\* strings of these references in every non-ignored manifest, wherever the
\* manifest lies.  The set changes only in the scan step, which comes after
\* the traversal loop has ended and leaves files_to_copy as it is.
C15_ScanOfCsharpProject ==
    /\ [](pc = "collected" => external_csharp_deps = ExternalCsharpOfInputs)
    /\ [](~is_csharp_project => external_csharp_deps = {})
    /\ [][external_csharp_deps' # external_csharp_deps =>
             /\ pc = "extcs"
             /\ files_to_process = <<>>
             /\ files_to_copy' = files_to_copy
             /\ files_to_process' = files_to_process]_vars

\* App.cs is the entry file: the set holds Newtonsoft.Json==13.0.1 of
\* app.csproj, and xunit==2.4.2 of tests/tests.csproj although no file under
\* tests is in files_to_copy
C15_Witness ==
    /\ pc = "collected"
    /\ settings.source_files = <<F_app>>
    /\ <<"Newtonsoft.Json", "==", "13.0.1">> \in external_csharp_deps
    /\ <<"xunit", "==", "2.4.2">> \in external_csharp_deps
    /\ \A f \in files_to_copy : ~IsPrefix(ProjDir \o <<Dir("tests")>>, f)
    /\ F_csproj \notin files_to_copy

\* one identifier string comes before another in ascending order
ComesBefore(a, b) == Rank(a) < Rank(b)

\* a list of lines holds each identifier of a set once, ascending; the lines
\* of csharp_packages.txt are compared as name==version strings
ListsAscending(lines, deps, before(_, _)) ==
    /\ Len(lines) = Cardinality(deps)
    /\ Range(lines) = deps
    /\ \A i \in DOMAIN lines, j \in DOMAIN lines : i < j => before(lines[i], lines[j])

PackageComesBefore(a, b) ==
    \/ ComesBefore(a[1], b[1])
    \/ a[1] = b[1] /\ ComesBefore(a[3], b[3])

ManifestsAsStated(written) ==
    /\ DOMAIN written \subseteq {"requirements.txt", "csharp_packages.txt"}
    /\ "requirements.txt" \in DOMAIN written <=> external_python_deps # {}
    /\ "csharp_packages.txt" \in DOMAIN written <=> external_csharp_deps # {}
    /\ external_python_deps # {} =>
          ListsAscending(written["requirements.txt"], external_python_deps, ComesBefore)
    /\ external_csharp_deps # {} =>
          ListsAscending(written["csharp_packages.txt"], external_csharp_deps,
                         PackageComesBefore)

\* C16: in a completed directory output and in a completed archive, the
\* manifest of a language is present exactly when the external set of that
\* language is non-empty, and it lists every identifier of the set once, one
\* per line, in ascending order; nothing writes a manifest elsewhere.
C16_ManifestsSorted ==
    /\ disk.dir.complete => ManifestsAsStated(disk.dir.manifests)
    /\ disk.zip.complete => ManifestsAsStated(disk.zip.manifests)
    /\ ~disk.dir.complete => DOMAIN disk.dir.manifests = {}
    /\ ~disk.zip.complete => DOMAIN disk.zip.manifests = {}

\* both outputs are complete, with three Python identifiers and at least two
\* C# identifiers in the manifests
C16_Witness ==
    /\ pc = "done"
    /\ disk.dir.complete /\ disk.zip.complete
    /\ DOMAIN disk.dir.manifests = {"requirements.txt", "csharp_packages.txt"}
    /\ DOMAIN disk.zip.manifests = {"requirements.txt", "csharp_packages.txt"}
    /\ disk.dir.manifests["requirements.txt"] = <<"numpy", "pandas", "yaml">>
    /\ Len(disk.zip.manifests["csharp_packages.txt"]) >= 2
    /\ disk.zip.manifests["csharp_packages.txt"][1] = <<"Newtonsoft.Json", "==", "13.0.1">>

\* run is past the emptiness test of extractor.py 56
PastCollection == pc \in {"dir_prepare", "dir_copy", "zip_open", "zip_copy", "done", "failed"}

C18_NoPartialOutput ==
    pc = "failed" =>
        /\ files_to_process = <<>>
        /\ ~(disk.dir.exists /\ ~disk.dir.kept /\ ~disk.dir.complete)
        /\ ~(disk.dir.was /\ ~disk.dir.kept /\ ~disk.dir.complete)
        /\ ~(disk.zip.exists /\ ~disk.zip.complete)
        /\ ~(disk.dir.complete /\ settings.zip_file # None /\ ~disk.zip.complete)

\* C20 as stated: a completed output holds every file of files_to_copy at the
\* path _get_relative_path_str gives, inside the output, and no two files
\* share a destination, so as many files are written as files_to_copy holds.
C20_WholeSetWritten ==
    /\ disk.dir.complete =>
          /\ \A f \in files_to_copy :
                LET dest_file == join(settings.output_dir, _get_relative_path_str(f))
                IN  /\ IsPrefix(settings.output_dir, dest_file)
                    /\ dest_file \in DOMAIN disk.dir.files
                    /\ disk.dir.files[dest_file] = f
          /\ Cardinality(DOMAIN disk.dir.files) = Cardinality(files_to_copy)
    /\ disk.zip.complete =>
          /\ \A f \in files_to_copy :
                [arcname |-> arcname_of(_get_relative_path_str(f)), source |-> f]
                    \in disk.zip.entries
          /\ \A e1 \in disk.zip.entries, e2 \in disk.zip.entries :
                e1.arcname = e2.arcname => e1 = e2
          /\ Cardinality(disk.zip.entries) = Cardinality(files_to_copy)
    /\ (pc = "done" /\ settings.output_dir # None /\ files_to_copy # {}) =>
          disk.dir.complete

\* C19: the traversal loop ends in every run (the frontier is found empty at
\* the loop head), and whenever the frontier is empty every path that was
\* ever on it and matches no ignore rule is in processed_files and in
\* files_to_copy.
C19_Terminates ==
    /\ <>(pc = "extcs" /\ files_to_process = <<>>)
    /\ [](files_to_process = <<>> =>
             \A f \in Files :
                 (log.enqueued[f] > 0 /\ ~MatchesIgnoreRule(f)) =>
                     (f \in processed_files /\ f \in files_to_copy))

\* the loop has ended on a project in which two files import each other and
\* an ignored entry file was skipped
C19_Witness ==
    /\ pc = "extcs"
    /\ files_to_process = <<>>
    /\ \E f \in files_to_copy, g \in files_to_copy :
          f # g /\ f \in LocalEdges(g) /\ g \in LocalEdges(f)
    /\ \E f \in Entries : MatchesIgnoreRule(f) /\ log.skipped[f] > 0

----------------------------------------------------------------------------
(* C21..C22 *)

\* the dependency edges discovered so far: those of the files parsed
DiscoveredEdges(f) == IF f \in log.parsed THEN LocalEdges(f) ELSE {}

\* the length of the shortest chain of discovered edges from a set of files
\* to a file, -1 if there is none: breadth-first layers
RECURSIVE LayerDistance(_, _, _, _)
LayerDistance(layer, seen, k, f) ==
    IF f \in layer THEN k
    ELSE IF layer = {} THEN -1
    ELSE LayerDistance((UNION {DiscoveredEdges(g) : g \in layer}) \ (seen \cup layer),
                       seen \cup layer, k + 1, f)

ShortestDistance(f) == LayerDistance(NonIgnoredEntries, {}, 0, f)

\* C21: in every state the depths of the frontier entries do not decrease
\* from front to back and differ by at most 1, and every file that was popped
\* and processed was processed at the depth that is its shortest distance
\* from the non-ignored entry files along the discovered edges (0 for an
\* entry file); every step that changes the frontier removes its front entry
\* or adds entries at its back.
C21_BreadthFirst ==
    /\ [](/\ \A i \in DOMAIN files_to_process, j \in DOMAIN files_to_process :
                /\ i < j => files_to_process[i].depth <= files_to_process[j].depth
                /\ files_to_process[i].depth - files_to_process[j].depth \in {-1, 0, 1}
          /\ \A f \in Files :
                log.marks[f] > 0 => log.depth_at[f] = ShortestDistance(f))
    /\ [][files_to_process' # files_to_process =>
             \/ files_to_process # <<>> /\ files_to_process' = Tail(files_to_process)
             \/ /\ Len(files_to_process') > Len(files_to_process)
                /\ SubSeq(files_to_process', 1, Len(files_to_process)) = files_to_process]_vars

\* the frontier holds entries of two depths, and a processed file is reached
\* by a discovered edge from a file that is not nearer to the entry files
\* than itself: a longer chain to it exists beside the shortest one
C21_Witness ==
    /\ pc = "loop"
    /\ \E i \in DOMAIN files_to_process, j \in DOMAIN files_to_process :
          files_to_process[i].depth < files_to_process[j].depth
    /\ \E f \in Files, g \in log.parsed :
          /\ log.marks[f] > 0
          /\ log.depth_at[f] >= 1
          /\ f \in LocalEdges(g)
          /\ log.depth_at[g] >= log.depth_at[f]

\* the external identifiers the parser finds in a file
ExternalsOf(f) == IF Raises(f) THEN {} ELSE Dispatch(f).external

\* C22: with no_recursion, the step taken for a file marked at depth >= 1
\* changes neither the frontier nor an external set, and the file is not
\* read; when the traversal has ended the external Python set is exactly what
\* the non-ignored entry files themselves import, so an identifier that only
\* the included direct dependencies import is not in it.
C22_DirectDependenciesNotParsed ==
    /\ [][(settings.no_recursion /\ pc = "marked" /\ current_depth >= 1) =>
             /\ files_to_process' = files_to_process
             /\ external_python_deps' = external_python_deps
             /\ external_csharp_deps' = external_csharp_deps
             /\ log'.reads = log.reads]_vars
    /\ []((settings.no_recursion /\ TraversalDone) =>
             /\ external_python_deps = UNION {ExternalsOf(e) : e \in NonIgnoredEntries}
             /\ \A f \in files_to_copy \ Entries : \A x \in ExternalsOf(f) :
                   x \notin UNION {ExternalsOf(e) : e \in NonIgnoredEntries} =>
                       x \notin external_python_deps)

\* no_recursion: utils.py was included at depth 1 as a dependency of the
\* entry file; it imports requests, which is not in the external set, while
\* numpy of the entry file is
C22_Witness ==
    /\ settings.no_recursion
    /\ pc = "collected"
    /\ settings.source_files = <<F_main>>
    /\ F_utils \in files_to_copy
    /\ log.depth_at[F_utils] = 1
    /\ "requests" \in ExternalsOf(F_utils)
    /\ "requests" \notin external_python_deps
    /\ "numpy" \in external_python_deps

=============================================================================
